---- MODULE Spec2Model ----
(***************************************************************************)
(* Model of src/core/parser/python-parser.ts (class PythonParser).         *)
(*                                                                         *)
(* The raw concrete syntax tree that the grammar engine returns for a      *)
(* source text is an arena `tree` of raw nodes in pre-order; the           *)
(* normalized tree that convertNode builds is an arena `heap` of           *)
(* ParsedNode records, allocated in the order the code constructs them.    *)
(* A node reference is its index in the arena, 0 stands for undefined.     *)
(* A text is the sequence of the tokens it covers; <<>> is the empty       *)
(* string.  An optional value is <<>> (null / undefined) or <<v>>.         *)
(* `returned` holds, for every call of parse that returned, the text the    *)
(* client passed and the ParseResult it got back.                          *)
(***************************************************************************)
EXTENDS Integers, Sequences, FiniteSets, TLC

VARIABLES sourceCode, tree, heap, stack, pc, result, out, returned

vars == <<sourceCode, tree, heap, stack, pc, result, out, returned>>

----------------------------------------------------------------------------
(* Bounds of the input families.                                           *)

MaxNodes == 5

MaxDefs == 3

MaxDecorators == 3

MaxParams == 2

MaxNames == 2

----------------------------------------------------------------------------
(* Generic helpers on sequences.                                           *)

RECURSIVE SumSeq(_)
SumSeq(s) == IF s = <<>> THEN 0 ELSE Head(s) + SumSeq(Tail(s))

RECURSIVE Concat(_)
Concat(ss) == IF ss = <<>> THEN <<>> ELSE Head(ss) \o Concat(Tail(ss))

RECURSIVE SeqsUpTo(_, _)
SeqsUpTo(S, n) ==
  IF n = 0 THEN {<<>>}
  ELSE LET shorter == SeqsUpTo(S, n - 1)
       IN shorter \cup {Append(s, x) : s \in {t \in shorter : Len(t) = n - 1}, x \in S}

MaxOf(S) == CHOOSE x \in S : \A y \in S : y <= x

None == <<>>
Some(v) == <<v>>

----------------------------------------------------------------------------
(* What the grammar engine hands to the parser: a syntax tree written as   *)
(* nested records, then laid out as the arena of raw nodes with the        *)
(* positions and texts the engine reports for them.                        *)

Node(type, kids) == [type |-> type, tok |-> <<>>, missing |-> FALSE, kids |-> kids]
Leaf(type, s) == [type |-> type, tok |-> <<s>>, missing |-> FALSE, kids |-> <<>>]
MissingLeaf(type) == [type |-> type, tok |-> <<>>, missing |-> TRUE, kids |-> <<>>]

RECURSIVE NodeCount(_)
NodeCount(t) == 1 + SumSeq([i \in 1..Len(t.kids) |-> NodeCount(t.kids[i])])

RECURSIVE Tokens(_)
Tokens(t) == t.tok \o Concat([i \in 1..Len(t.kids) |-> Tokens(t.kids[i])])

RECURSIVE Layout(_, _, _)
Layout(t, base, tokBase) ==
  LET n == Len(t.kids)
      sizes == [i \in 1..n |-> NodeCount(t.kids[i])]
      widths == [i \in 1..n |-> Len(Tokens(t.kids[i]))]
      kidBase == [i \in 1..n |-> base + 1 + SumSeq(SubSeq(sizes, 1, i - 1))]
      kidTok == [i \in 1..n |-> tokBase + Len(t.tok) + SumSeq(SubSeq(widths, 1, i - 1))]
      me == [type |-> t.type,
             text |-> Tokens(t),
             children |-> kidBase,
             isMissing |-> t.missing,
             startTok |-> tokBase,
             endTok |-> tokBase + Len(Tokens(t))]
  IN <<me>> \o Concat([i \in 1..n |-> Layout(t.kids[i], kidBase[i], kidTok[i])])

(* Every statement of a module or block starts a new line; a token is one  *)
(* column wide and a missing token is zero columns wide.                   *)
LineBreaks(lay) ==
  {lay[c].startTok : c \in UNION {{lay[n].children[i] : i \in 1..Len(lay[n].children)} :
                                    n \in {m \in 1..Len(lay) : lay[m].type \in {"module", "block"}}}}
    \ {0}

PointAt(breaks, p) ==
  [row |-> Cardinality({b \in breaks : b <= p}),
   column |-> p - MaxOf({0} \cup {b \in breaks : b <= p})]

EndPoint(breaks, s, e) ==
  IF e = s THEN PointAt(breaks, s)
  ELSE LET last == PointAt(breaks, e - 1)
       IN [row |-> last.row, column |-> last.column + 1]

RawTree(t) ==
  LET lay == Layout(t, 1, 0)
      breaks == LineBreaks(lay)
  IN [n \in 1..Len(lay) |->
        [type |-> lay[n].type,
         text |-> lay[n].text,
         children |-> lay[n].children,
         isMissing |-> lay[n].isMissing,
         startPosition |-> PointAt(breaks, lay[n].startTok),
         endPosition |-> EndPoint(breaks, lay[n].startTok, lay[n].endTok)]]

(* node.hasError(): the node is an ERROR node or a missing token, or one   *)
(* of its descendants is.                                                  *)
RECURSIVE hasError(_, _)
hasError(t, n) ==
  \/ t[n].type = "ERROR"
  \/ t[n].isMissing
  \/ \E i \in 1..Len(t[n].children) : hasError(t, t[n].children[i])

childCount(t, n) == Len(t[n].children)

child(t, n, i) == t[n].children[i + 1]

----------------------------------------------------------------------------
(* Input family of Spec: every tree of at most MaxNodes nodes under a      *)
(* module root, built from ERROR nodes, a well-formed statement kind and   *)
(* identifier tokens; a statement may end with a missing token that the    *)
(* grammar engine supplied.                                                *)

SyntaxLeaves == {Leaf("identifier", "x"), Leaf("ERROR", "$")}

SyntaxInner == {"ERROR", "expression_statement"}

RECURSIVE SyntaxTreesOfSize(_), SyntaxForestsOfSize(_)
SyntaxTreesOfSize(k) ==
  IF k = 1 THEN SyntaxLeaves
  ELSE {Node(ty, f) : ty \in SyntaxInner, f \in SyntaxForestsOfSize(k - 1)}
         \cup (IF k = 2 THEN {}
               ELSE {Node("expression_statement", Append(f, MissingLeaf(")"))) :
                       f \in SyntaxForestsOfSize(k - 2)})

SyntaxForestsOfSize(m) ==
  IF m = 0 THEN {<<>>}
  ELSE UNION {{<<t>> \o f : t \in SyntaxTreesOfSize(k), f \in SyntaxForestsOfSize(m - k)} :
                k \in 1..m}

SyntaxInputs ==
  {Node("module", f) : f \in UNION {SyntaxForestsOfSize(m) : m \in 0..(MaxNodes - 1)}}

----------------------------------------------------------------------------
(* Input family of SpecDefs: modules holding at most MaxDefs function and  *)
(* class definitions, nested in each other in every possible way.          *)

PassBody == <<Leaf("pass_statement", "pass")>>

BodyOf(statements) == IF statements = <<>> THEN PassBody ELSE statements

FunctionDef(statements) ==
  Node("function_definition",
       <<Leaf("def", "def"), Leaf("identifier", "f"), Leaf("parameters", "()"),
         Leaf(":", ":"), Node("block", BodyOf(statements))>>)

AsyncFunctionDef(statements) ==
  Node("function_definition",
       <<Leaf("async", "async"), Leaf("def", "def"), Leaf("identifier", "g"),
         Leaf("parameters", "()"), Leaf(":", ":"), Node("block", BodyOf(statements))>>)

Decorator(name) == Node("decorator", <<Leaf("@", "@"), Leaf("identifier", name)>>)

Decorated(decorators, definition) ==
  Node("decorated_definition", decorators \o <<definition>>)

ClassDef(statements) ==
  Node("class_definition",
       <<Leaf("class", "class"), Leaf("identifier", "C"), Leaf(":", ":"),
         Node("block", BodyOf(statements))>>)

(* `class C` cut short: the grammar engine supplies the missing colon and  *)
(* there is no block.                                                      *)
ClassWithoutBlock ==
  Node("class_definition", <<Leaf("class", "class"), Leaf("identifier", "C"), MissingLeaf(":")>>)

RECURSIVE DefsOfSize(_), DefForestsOfSize(_)
DefsOfSize(k) ==
  (IF k = 1 THEN {ClassWithoutBlock} ELSE {})
    \cup UNION {{FunctionDef(f), Decorated(<<Decorator("d")>>, AsyncFunctionDef(f)), ClassDef(f)} :
                  f \in DefForestsOfSize(k - 1)}

DefForestsOfSize(m) ==
  IF m = 0 THEN {<<>>}
  ELSE UNION {{<<t>> \o f : t \in DefsOfSize(k), f \in DefForestsOfSize(m - k)} : k \in 1..m}

DefInputs == {Node("module", f) : f \in UNION {DefForestsOfSize(m) : m \in 0..MaxDefs}}

----------------------------------------------------------------------------
(* Input family of SpecDecorators: a function, a method or a class under   *)
(* at most MaxDecorators decorators, spread over nested                    *)
(* decorated_definition wrappers in every possible way.                    *)

DecoratorNames == {"a", "b"}

SeqsOfLen(S, n) == {s \in SeqsUpTo(S, n) : Len(s) = n}

(* The wrappers around a definition, outermost first, each with its        *)
(* decorators in source order.                                             *)
RECURSIVE WrapperLayers(_)
WrapperLayers(k) ==
  IF k = 0 THEN {<<>>}
  ELSE UNION {{<<layer>> \o rest : layer \in SeqsOfLen(DecoratorNames, j),
                                   rest \in WrapperLayers(k - j)} : j \in 1..k}

RECURSIVE Wrapped(_, _)
Wrapped(layers, definition) ==
  IF layers = <<>> THEN definition
  ELSE Decorated([i \in 1..Len(Head(layers)) |-> Decorator(Head(layers)[i])],
                 Wrapped(Tail(layers), definition))

AllWrapperLayers == UNION {WrapperLayers(k) : k \in 0..MaxDecorators}

DecoratorInputs ==
  {Node("module", <<Wrapped(layers, FunctionDef(<<>>))>>) : layers \in AllWrapperLayers}
    \cup {Node("module", <<Wrapped(outer, ClassDef(<<Wrapped(layers, FunctionDef(<<>>))>>))>>) :
            layers \in AllWrapperLayers, outer \in {<<>>, <<<<"c">>>>}}

----------------------------------------------------------------------------
(* Input family of SpecParams: one function whose parameter list holds at  *)
(* most MaxParams parameters, each of one of the shapes below.             *)

TypeOf(name) == Node("type", <<Leaf("identifier", name)>>)

ParamShapes ==
  { Leaf("identifier", "a"),
    Node("default_parameter", <<Leaf("identifier", "x"), Leaf("=", "="), Leaf("integer", "5")>>),
    Node("default_parameter", <<Leaf("identifier", "k"), Leaf("=", "="), Leaf("identifier", "y")>>),
    Node("default_parameter", <<Leaf("identifier", "m"), Leaf("=", "="), MissingLeaf("identifier")>>),
    Node("typed_parameter", <<Leaf("identifier", "x"), Leaf(":", ":"), TypeOf("int")>>),
    Node("typed_parameter",
         <<Node("list_splat_pattern", <<Leaf("*", "*"), Leaf("identifier", "t")>>),
           Leaf(":", ":"), TypeOf("int")>>),
    Node("typed_parameter",
         <<Leaf("identifier", "u"), Leaf(":", ":"), Node("type", <<MissingLeaf("identifier")>>)>>),
    Node("typed_default_parameter",
         <<Leaf("identifier", "z"), Leaf(":", ":"), TypeOf("int"), Leaf("=", "="), Leaf("integer", "5")>>),
    Node("list_splat_pattern", <<Leaf("*", "*"), Leaf("identifier", "args")>>) }

RECURSIVE CommaSeparated(_)
CommaSeparated(items) ==
  IF Len(items) <= 1 THEN items
  ELSE <<Head(items), Leaf(",", ",")>> \o CommaSeparated(Tail(items))

FunctionWithParams(params) ==
  Node("function_definition",
       <<Leaf("def", "def"), Leaf("identifier", "f"),
         Node("parameters", <<Leaf("(", "(")>> \o CommaSeparated(params) \o <<Leaf(")", ")")>>),
         Leaf(":", ":"), Node("block", PassBody)>>)

ParamInputs ==
  {Node("module", <<FunctionWithParams(params)>>) : params \in SeqsUpTo(ParamShapes, MaxParams)}

----------------------------------------------------------------------------
(* Input family of SpecImports: an import statement of either form whose   *)
(* import list holds at most MaxNames entries, alone, after a from-import  *)
(* or before a direct import.                                              *)

DottedName(names) ==
  Node("dotted_name",
       IF Len(names) = 1 THEN <<Leaf("identifier", names[1])>>
       ELSE <<Leaf("identifier", names[1]), Leaf(".", "."), Leaf("identifier", names[2])>>)

AliasedImport(name, alias) ==
  Node("aliased_import", <<Leaf("identifier", name), Leaf("as", "as"), alias>>)

NameShapes ==
  { Leaf("identifier", "c"),
    AliasedImport("a", Leaf("identifier", "b")),
    AliasedImport("a", MissingLeaf("identifier")),
    DottedName(<<"d", "e">>) }

ImportLists ==
  {<<Node("import_list", CommaSeparated(names))>> : names \in SeqsUpTo(NameShapes, MaxNames) \ {<<>>}}

(* What may follow the keyword import: an import list, a wildcard, or the  *)
(* imported name without a list around it.                                 *)
ImportTargets ==
  ImportLists \cup {<<Leaf("wildcard_import", "*")>>, <<DottedName(<<"n">>)>>}

ModuleNames ==
  { <<DottedName(<<"pkg">>)>>,
    <<Node("relative_import", <<Leaf("import_prefix", "."), DottedName(<<"pkg">>)>>)>>,
    <<Leaf("ERROR", "$")>> }

FromImport(moduleName, target) ==
  Node("import_from_statement",
       <<Leaf("from", "from")>> \o moduleName \o <<Leaf("import", "import")>> \o target)

DirectImport(target) == Node("import_statement", <<Leaf("import", "import")>> \o target)

(* `import one, two`                                                       *)
DirectImportOfTwo ==
  DirectImport(<<Node("import_list",
                      CommaSeparated(<<Leaf("identifier", "one"), Leaf("identifier", "two")>>))>>)

ImportStatements ==
  {FromImport(moduleName, target) : moduleName \in ModuleNames, target \in ImportTargets}
    \cup {DirectImport(target) : target \in ImportTargets \ {<<Leaf("wildcard_import", "*")>>}}
    \cup {DirectImportOfTwo}

LeadingFromImport ==
  FromImport(<<DottedName(<<"lead">>)>>, <<Node("import_list", <<Leaf("identifier", "l")>>)>>)

TrailingDirectImport == DirectImport(<<Node("import_list", <<Leaf("identifier", "one")>>)>>)

ImportInputs ==
  {Node("module", <<st>>) : st \in ImportStatements}
    \cup {Node("module", <<LeadingFromImport, st>>) : st \in ImportStatements}
    \cup {Node("module", <<st, TrailingDirectImport>>) : st \in ImportStatements}

----------------------------------------------------------------------------
(* Input family of SpecSparse: one function, class, parameter or import    *)
(* node that keeps any part of its expected children, in their order.      *)

RECURSIVE SubSeqsOf(_)
SubSeqsOf(s) ==
  IF s = <<>> THEN {<<>>}
  ELSE LET rest == SubSeqsOf(Tail(s))
       IN rest \cup {<<Head(s)>> \o r : r \in rest}

SparseFunctions ==
  {Node("function_definition", kids) :
     kids \in SubSeqsOf(<<Leaf("def", "def"), Leaf("identifier", "f"), Leaf("parameters", "()"),
                          Leaf(":", ":"), Node("block", PassBody)>>)}

(* The class body holds a method that is cut short after `def`.            *)
SparseClasses ==
  {Node("class_definition", kids) :
     kids \in SubSeqsOf(<<Leaf("class", "class"), Leaf("identifier", "C"),
                          Node("argument_list",
                               <<Leaf("(", "("), Leaf("identifier", "B"), Leaf(")", ")")>>),
                          Leaf(":", ":"),
                          Node("block", <<Node("function_definition", <<Leaf("def", "def")>>)>>)>>)}

SparseParameters ==
  {Node("default_parameter", kids) :
     kids \in SubSeqsOf(<<Leaf("identifier", "m"), Leaf("=", "="), Leaf("integer", "5")>>)}
    \cup {Node("typed_parameter", kids) :
            kids \in SubSeqsOf(<<Leaf("identifier", "u"), Leaf(":", ":"), TypeOf("int")>>)}

SparseFromImports ==
  {Node("import_from_statement", kids) :
     kids \in SubSeqsOf(<<Leaf("from", "from"), DottedName(<<"pkg">>), Leaf("import", "import"),
                          Node("import_list", <<Leaf("identifier", "c")>>)>>)}

SparseAliasedImports ==
  {Node("aliased_import", kids) :
     kids \in SubSeqsOf(<<Leaf("identifier", "a"), Leaf("as", "as"), Leaf("identifier", "b")>>)}

SparseDirectImports ==
  {Node("import_statement", <<>>), DirectImport(<<>>)}
    \cup {DirectImport(<<Node("import_list", <<name>>)>>) : name \in SparseAliasedImports}

SparseInputs ==
  {Node("module", <<st>>) :
     st \in SparseFunctions \cup SparseClasses \cup SparseFromImports \cup SparseDirectImports
              \cup {FunctionWithParams(<<p>>) : p \in SparseParameters}}

----------------------------------------------------------------------------
(* parse and convertNode, one step per call, construction and return.      *)

Undefined == 0

NoResult == [ast |-> Undefined, language |-> "", errors |-> <<>>, source |-> <<>>]

NoOutput == [op |-> "none", value |-> <<>>]

Frame(n) == [node |-> n, i |-> 0, children |-> <<>>, parsedNode |-> Undefined]

Top == stack[Len(stack)]

InitWith(inputs) ==
  \E t \in inputs :
    /\ sourceCode = Tokens(t)
    /\ tree = RawTree(t)
    /\ heap = <<>>
    /\ stack = <<>>
    /\ pc = "idle"
    /\ result = NoResult
    /\ out = NoOutput
    /\ returned = <<>>

Init == InitWith(SyntaxInputs)

(* parse, lines 17-21: the grammar engine's tree is at hand and            *)
(* convertNode is called on its root.                                      *)
Parse ==
  /\ pc = "idle"
  /\ stack' = <<Frame(1)>>
  /\ pc' = "convert"
  /\ UNCHANGED <<sourceCode, tree, heap, result, out, returned>>

(* convertNode, lines 52-55: the loop reaches child i and calls            *)
(* convertNode on it.                                                      *)
ConvertChild ==
  /\ pc = "convert"
  /\ Top.parsedNode = Undefined
  /\ Top.i < childCount(tree, Top.node)
  /\ stack' = Append(stack, Frame(child(tree, Top.node, Top.i)))
  /\ UNCHANGED <<sourceCode, tree, heap, pc, result, out, returned>>

(* convertNode, lines 61-67: the record of the node is constructed from    *)
(* the raw node and the collected children; it has no parent property.     *)
NewParsedNode(raw, children) ==
  [type |-> raw.type,
   startPosition |-> [row |-> raw.startPosition.row, column |-> raw.startPosition.column],
   endPosition |-> [row |-> raw.endPosition.row, column |-> raw.endPosition.column],
   text |-> raw.text,
   children |-> children,
   parent |-> Undefined]

ConvertConstruct ==
  /\ pc = "convert"
  /\ Top.parsedNode = Undefined
  /\ Top.i = childCount(tree, Top.node)
  /\ heap' = Append(heap, NewParsedNode(tree[Top.node], Top.children))
  /\ stack' = [stack EXCEPT ![Len(stack)].parsedNode = Len(heap) + 1]
  /\ UNCHANGED <<sourceCode, tree, pc, result, out, returned>>

(* Variant: the loop over the children starts at the second child.         *)
SetParentsSkippingFirst(h, children, parsedNode) ==
  [c \in 1..Len(h) |->
     IF \E k \in 2..Len(children) : children[k] = c
     THEN [h[c] EXCEPT !.parent = parsedNode]
     ELSE h[c]]

(* Variant: every record built so far gets the new node as its parent.     *)
SetParentsOfAllBuilt(h, children, parsedNode) ==
  [c \in 1..Len(h) |->
     IF c # parsedNode THEN [h[c] EXCEPT !.parent = parsedNode] ELSE h[c]]

(* convertNode, lines 70-72: every collected child gets the new node as    *)
(* its parent.                                                             *)
SetParents(h, children, parsedNode) ==
  [c \in 1..Len(h) |->
     IF \E k \in 1..Len(children) : children[k] = c
     THEN [h[c] EXCEPT !.parent = parsedNode]
     ELSE h[c]]

(* Variant: the returned node is put in front of the collected children.   *)
PushChildInFront(children, childNode) == <<childNode>> \o children

(* convertNode, lines 56-57, in the caller: the returned node's parent is  *)
(* cleared and the node is pushed onto the caller's children.              *)
PushChild(children, childNode) == Append(children, childNode)

(* convertNode, lines 70-74, then lines 55-57 of the caller or line 21 of  *)
(* parse: the parents are set and the node is returned.                    *)
ConvertReturn ==
  /\ pc = "convert"
  /\ Top.parsedNode # Undefined
  /\ LET me == Top.parsedNode
         patched == SetParents(heap, Top.children, me)
     IN IF Len(stack) = 1
        THEN /\ heap' = patched
             /\ stack' = <<>>
             /\ result' = [result EXCEPT !.ast = me]
             /\ pc' = "collect"
        ELSE LET caller == stack[Len(stack) - 1]
             IN /\ heap' = [patched EXCEPT ![me].parent = Undefined]
                /\ stack' = [SubSeq(stack, 1, Len(stack) - 1) EXCEPT
                               ![Len(stack) - 1] = [caller EXCEPT
                                   !.children = PushChild(caller.children, me),
                                   !.i = caller.i + 1]]
                /\ UNCHANGED <<result, pc>>
  /\ UNCHANGED <<sourceCode, tree, out, returned>>

----------------------------------------------------------------------------
(* collectErrors and the end of parse.                                     *)

DigitChar == <<"0", "1", "2", "3", "4", "5", "6", "7", "8", "9">>

(* The decimal text of a number, as the template literal prints it.        *)
RECURSIVE NumberText(_)
NumberText(n) ==
  IF n < 10 THEN <<DigitChar[n + 1]>>
  ELSE NumberText(n \div 10) \o <<DigitChar[(n % 10) + 1]>>

(* Variant: the message prints the column before the row.                  *)
ErrorEntryColumnFirst(raw) ==
  [message |-> <<"Syntax error at ">> \o NumberText(raw.startPosition.column)
                 \o <<":">> \o NumberText(raw.startPosition.row),
   position |-> [row |-> raw.startPosition.row, column |-> raw.startPosition.column],
   severity |-> "error"]

(* collectErrors, lines 83-90: the entry pushed for an ERROR node.         *)
ErrorEntry(raw) ==
  [message |-> <<"Syntax error at ">> \o NumberText(raw.startPosition.row)
                 \o <<":">> \o NumberText(raw.startPosition.column),
   position |-> [row |-> raw.startPosition.row, column |-> raw.startPosition.column],
   severity |-> "error"]

RECURSIVE collectErrors(_, _, _), collectErrorsOfChildren(_, _, _, _)
(* Variant: the walk does not descend below an ERROR node.                 *)
collectErrorsNotBelowError(t, n, errors) ==
  IF hasError(t, n)
  THEN IF t[n].type = "ERROR" THEN Append(errors, ErrorEntry(t[n]))
       ELSE collectErrorsOfChildren(t, n, 0, errors)
  ELSE errors

(* collectErrors, lines 80-101.                                            *)
collectErrors(t, n, errors) ==
  IF hasError(t, n)
  THEN collectErrorsOfChildren(t, n, 0,
         IF t[n].type = "ERROR" THEN Append(errors, ErrorEntry(t[n])) ELSE errors)
  ELSE errors

collectErrorsOfChildren(t, n, i, errors) ==
  IF i < childCount(t, n)
  THEN collectErrorsOfChildren(t, n, i + 1, collectErrors(t, child(t, n, i), errors))
  ELSE errors

(* Variant: the error list is kept on the instance and grows from call to  *)
(* call.                                                                   *)
ParseErrorsKeptOnInstance(t) ==
  (IF returned = <<>> THEN <<>> ELSE returned[Len(returned)].result.errors)
    \o (IF hasError(t, 1) THEN collectErrors(t, 1, <<>>) ELSE <<>>)

(* parse, lines 23-33.                                                     *)
ParseErrors(t) == IF hasError(t, 1) THEN collectErrors(t, 1, <<>>) ELSE <<>>

ParseReturn ==
  /\ pc = "collect"
  /\ result' = [ast |-> result.ast,
                language |-> "python",
                errors |-> ParseErrors(tree),
                source |-> sourceCode]
  /\ pc' = "done"
  /\ returned' = Append(returned, [sourceCode |-> sourceCode, result |-> result'])
  /\ UNCHANGED <<sourceCode, tree, heap, stack, out>>


----------------------------------------------------------------------------
(* The extraction routines, on the normalized tree h.                      *)

MinOf(S) == CHOOSE x \in S : \A y \in S : x <= y

(* node.children.find(child => child.type is one of types)                 *)
FindChild(h, node, types) ==
  LET hits == {i \in 1..Len(h[node].children) : h[h[node].children[i]].type \in types}
  IN IF hits = {} THEN Undefined ELSE h[node].children[MinOf(hits)]

(* node.children.filter(child => child.type is one of types)               *)
FilterChildren(h, node, types) ==
  LET kids == h[node].children
  IN Concat([i \in 1..Len(kids) |-> IF h[kids[i]].type \in types THEN <<kids[i]>> ELSE <<>>])

(* node?.text, with undefined read as the empty (falsy) text               *)
TextOf(h, node) == IF node = Undefined THEN <<>> ELSE h[node].text

(* Variant: the text is taken as it is, without a fallback.                *)
TextWithoutFallback(text, fallback) == text

(* text || fallback                                                        *)
TextOr(text, fallback) == IF text = <<>> THEN fallback ELSE text

(* text || null                                                            *)
TextOrNull(text) == IF text = <<>> THEN None ELSE Some(text)

(* Variant: the traversal does not descend into a node that matched.       *)
RECURSIVE findOutermostNodesByType(_, _, _)
findOutermostNodesByType(h, ast, nodeType) ==
  IF h[ast].type = nodeType THEN <<ast>>
  ELSE Concat([i \in 1..Len(h[ast].children) |->
                 findOutermostNodesByType(h, h[ast].children[i], nodeType)])

RECURSIVE findNodesByType(_, _, _)
findNodesByType(h, ast, nodeType) ==
  (IF h[ast].type = nodeType THEN <<ast>> ELSE <<>>)
    \o Concat([i \in 1..Len(h[ast].children) |->
                 findNodesByType(h, h[ast].children[i], nodeType)])

(* Variant: the default value is read from the first child.                *)
ParameterEntryFirstChildValue(h, node) ==
  IF h[node].type = "identifier"
  THEN <<[name |-> h[node].text, type |-> None, defaultValue |-> None]>>
  ELSE IF h[node].type = "default_parameter"
  THEN LET nameNode == FindChild(h, node, {"identifier"})
           valueNode == IF h[node].children = <<>> THEN Undefined ELSE h[node].children[1]
       IN <<[name |-> TextOr(TextOf(h, nameNode), <<"unknown">>),
             type |-> None,
             defaultValue |-> TextOrNull(TextOf(h, valueNode))]>>
  ELSE IF h[node].type = "typed_parameter"
  THEN LET nameNode == FindChild(h, node, {"identifier"})
           typeNode == FindChild(h, node, {"type"})
       IN <<[name |-> TextOr(TextOf(h, nameNode), <<"unknown">>),
             type |-> TextOrNull(TextOf(h, typeNode)),
             defaultValue |-> None]>>
  ELSE <<>>

(* extractParameters, lines 213-239: the entry pushed for one node that    *)
(* passed the filter.                                                      *)
ParameterEntry(h, node) ==
  IF h[node].type = "identifier"
  THEN <<[name |-> h[node].text, type |-> None, defaultValue |-> None]>>
  ELSE IF h[node].type = "default_parameter"
  THEN LET nameNode == FindChild(h, node, {"identifier"})
           valueNode == IF h[node].children = <<>> THEN Undefined
                        ELSE h[node].children[Len(h[node].children)]
       IN <<[name |-> TextOr(TextOf(h, nameNode), <<"unknown">>),
             type |-> None,
             defaultValue |-> TextOrNull(TextOf(h, valueNode))]>>
  ELSE IF h[node].type = "typed_parameter"
  THEN LET nameNode == FindChild(h, node, {"identifier"})
           typeNode == FindChild(h, node, {"type"})
       IN <<[name |-> TextOr(TextOf(h, nameNode), <<"unknown">>),
             type |-> TextOrNull(TextOf(h, typeNode)),
             defaultValue |-> None]>>
  ELSE <<>>

ParameterTypes == {"identifier", "default_parameter", "typed_parameter"}

(* Variant: the filter forgets the typed parameters.                       *)
extractParametersUntypedOnly(h, parametersNode) ==
  IF parametersNode = Undefined THEN <<>>
  ELSE LET paramNodes == FilterChildren(h, parametersNode, {"identifier", "default_parameter"})
       IN Concat([i \in 1..Len(paramNodes) |-> ParameterEntry(h, paramNodes[i])])

extractParameters(h, parametersNode) ==
  IF parametersNode = Undefined THEN <<>>
  ELSE LET paramNodes == FilterChildren(h, parametersNode, ParameterTypes)
       IN Concat([i \in 1..Len(paramNodes) |-> ParameterEntry(h, paramNodes[i])])

(* Variant: the decorators of a wrapper are put in front of those found    *)
(* so far.                                                                 *)
RECURSIVE DecoratorsFromOuterFirst(_, _, _)
DecoratorsFromOuterFirst(h, current, decorators) ==
  IF current # Undefined /\ h[current].type = "decorated_definition"
  THEN LET decoratorNodes == FilterChildren(h, current, {"decorator"})
       IN DecoratorsFromOuterFirst(h, h[current].parent,
            [i \in 1..Len(decoratorNodes) |-> h[decoratorNodes[i]].text] \o decorators)
  ELSE decorators

(* extractDecorators, lines 248-252: the loop from `current` upwards.      *)
RECURSIVE DecoratorsFrom(_, _, _)
DecoratorsFrom(h, current, decorators) ==
  IF current # Undefined /\ h[current].type = "decorated_definition"
  THEN LET decoratorNodes == FilterChildren(h, current, {"decorator"})
       IN DecoratorsFrom(h, h[current].parent,
            decorators \o [i \in 1..Len(decoratorNodes) |-> h[decoratorNodes[i]].text])
  ELSE decorators

extractDecorators(h, node) == DecoratorsFrom(h, h[node].parent, <<>>)

IsAsync(h, node) ==
  \E i \in 1..Len(h[node].children) : h[h[node].children[i]].text = <<"async">>

(* extractFunctions, lines 126-140: the entity of one function node.       *)
FunctionEntity(h, node) ==
  LET nameNode == FindChild(h, node, {"identifier"})
      parametersNode == FindChild(h, node, {"parameters"})
      bodyNode == FindChild(h, node, {"block"})
  IN [name |-> TextOr(TextOf(h, nameNode), <<"unknown">>),
      parameters |-> extractParameters(h, parametersNode),
      body |-> TextOr(TextOf(h, bodyNode), <<>>),
      startLine |-> h[node].startPosition.row,
      endLine |-> h[node].endPosition.row,
      isAsync |-> IsAsync(h, node),
      decorators |-> extractDecorators(h, node)]

extractFunctions(h, ast) ==
  LET functionNodes == findNodesByType(h, ast, "function_definition")
  IN [i \in 1..Len(functionNodes) |-> FunctionEntity(h, functionNodes[i])]

(* extractMethods, lines 269-282: the entity of one method node.           *)
MethodEntity(h, node) ==
  LET nameNode == FindChild(h, node, {"identifier"})
      parametersNode == FindChild(h, node, {"parameters"})
  IN [name |-> TextOr(TextOf(h, nameNode), <<"unknown">>),
      parameters |-> extractParameters(h, parametersNode),
      body |-> h[node].text,
      startLine |-> h[node].startPosition.row,
      endLine |-> h[node].endPosition.row,
      isAsync |-> IsAsync(h, node),
      decorators |-> extractDecorators(h, node)]

extractMethods(h, bodyNode) ==
  IF bodyNode = Undefined THEN <<>>
  ELSE LET functionNodes == findNodesByType(h, bodyNode, "function_definition")
       IN [i \in 1..Len(functionNodes) |-> MethodEntity(h, functionNodes[i])]

extractSuperclasses(h, superclassNode) ==
  IF superclassNode = Undefined THEN <<>>
  ELSE LET nodes == FilterChildren(h, superclassNode, {"identifier", "attribute"})
       IN [i \in 1..Len(nodes) |-> h[nodes[i]].text]

(* extractClasses, lines 149-162: the entity of one class node.            *)
ClassEntity(h, node) ==
  LET nameNode == FindChild(h, node, {"identifier"})
      bodyNode == FindChild(h, node, {"block"})
      superclassNode == FindChild(h, node, {"argument_list"})
  IN [name |-> TextOr(TextOf(h, nameNode), <<"unknown">>),
      superclasses |-> extractSuperclasses(h, superclassNode),
      methods |-> extractMethods(h, bodyNode),
      startLine |-> h[node].startPosition.row,
      endLine |-> h[node].endPosition.row,
      decorators |-> extractDecorators(h, node)]

extractClasses(h, ast) ==
  LET classNodes == findNodesByType(h, ast, "class_definition")
  IN [i \in 1..Len(classNodes) |-> ClassEntity(h, classNodes[i])]

(* Variant: the alias of an aliased import is read from its second child.  *)
ImportNameEntryAliasFromSecondChild(h, node) ==
  IF h[node].type = "identifier"
  THEN <<[name |-> h[node].text, alias |-> None]>>
  ELSE IF h[node].type = "aliased_import"
  THEN LET kids == h[node].children
           nameNode == IF Len(kids) >= 1 THEN kids[1] ELSE Undefined
           aliasNode == IF Len(kids) >= 2 THEN kids[2] ELSE Undefined
       IN <<[name |-> TextOr(TextOf(h, nameNode), <<>>),
             alias |-> TextOrNull(TextOf(h, aliasNode))]>>
  ELSE <<>>

(* extractImportNames, lines 290-302: the entry pushed for one child.      *)
ImportNameEntry(h, node) ==
  IF h[node].type = "identifier"
  THEN <<[name |-> h[node].text, alias |-> None]>>
  ELSE IF h[node].type = "aliased_import"
  THEN LET kids == h[node].children
           nameNode == IF Len(kids) >= 1 THEN kids[1] ELSE Undefined
           aliasNode == IF Len(kids) >= 3 THEN kids[3] ELSE Undefined
       IN <<[name |-> TextOr(TextOf(h, nameNode), <<>>),
             alias |-> TextOrNull(TextOf(h, aliasNode))]>>
  ELSE <<>>

extractImportNames(h, importListNode) ==
  IF importListNode = Undefined THEN <<>>
  ELSE LET kids == h[importListNode].children
       IN Concat([i \in 1..Len(kids) |-> ImportNameEntry(h, kids[i])])

(* Variant: the from form takes its alias from the first name, as the      *)
(* direct form does.                                                       *)
ImportEntityAliasOfFirstName(h, node) ==
  LET importListNode == FindChild(h, node, {"import_list"})
      names == extractImportNames(h, importListNode)
  IN IF h[node].type = "import_from_statement"
     THEN [type |-> "from",
           module |-> TextOr(TextOf(h, FindChild(h, node, {"dotted_name", "relative_import"})), <<>>),
           names |-> names,
           alias |-> IF names = <<>> THEN None ELSE names[1].alias,
           startLine |-> h[node].startPosition.row]
     ELSE [type |-> "import",
           module |-> IF names = <<>> THEN <<>> ELSE TextOr(names[1].name, <<>>),
           names |-> names,
           alias |-> IF names = <<>> THEN None ELSE names[1].alias,
           startLine |-> h[node].startPosition.row]

(* Variant: the direct form takes module and alias from the last name.     *)
ImportEntityOfLastName(h, node) ==
  LET importListNode == FindChild(h, node, {"import_list"})
      names == extractImportNames(h, importListNode)
  IN IF h[node].type = "import_from_statement"
     THEN [type |-> "from",
           module |-> TextOr(TextOf(h, FindChild(h, node, {"dotted_name", "relative_import"})), <<>>),
           names |-> names,
           alias |-> None,
           startLine |-> h[node].startPosition.row]
     ELSE [type |-> "import",
           module |-> IF names = <<>> THEN <<>> ELSE TextOr(names[Len(names)].name, <<>>),
           names |-> names,
           alias |-> IF names = <<>> THEN None ELSE names[Len(names)].alias,
           startLine |-> h[node].startPosition.row]

(* extractImports, lines 174-202: the entity of one import node.           *)
ImportEntity(h, node) ==
  IF h[node].type = "import_from_statement"
  THEN LET moduleNode == FindChild(h, node, {"dotted_name", "relative_import"})
           importListNode == FindChild(h, node, {"import_list"})
       IN [type |-> "from",
           module |-> TextOr(TextOf(h, moduleNode), <<>>),
           names |-> extractImportNames(h, importListNode),
           alias |-> None,
           startLine |-> h[node].startPosition.row]
  ELSE LET importListNode == FindChild(h, node, {"import_list"})
           names == extractImportNames(h, importListNode)
       IN [type |-> "import",
           module |-> IF names = <<>> THEN <<>> ELSE TextOr(names[1].name, <<>>),
           names |-> names,
           alias |-> IF names = <<>> THEN None ELSE names[1].alias,
           startLine |-> h[node].startPosition.row]

(* Variant: the from-imports are collected before the direct imports.      *)
extractImportsFromFirst(h, ast) ==
  LET importNodes == findNodesByType(h, ast, "import_from_statement")
                       \o findNodesByType(h, ast, "import_statement")
  IN [i \in 1..Len(importNodes) |-> ImportEntity(h, importNodes[i])]

extractImports(h, ast) ==
  LET importNodes == findNodesByType(h, ast, "import_statement")
                       \o findNodesByType(h, ast, "import_from_statement")
  IN [i \in 1..Len(importNodes) |-> ImportEntity(h, importNodes[i])]

(* The calls a client makes on the tree that parse returned.               *)

SearchedTypes == {"function_definition", "class_definition", "identifier"}

FindNodesByType ==
  /\ pc = "done"
  /\ \E nodeType \in SearchedTypes :
       out' = [op |-> "findNodesByType",
               value |-> <<nodeType, findNodesByType(heap, result.ast, nodeType)>>]
  /\ UNCHANGED <<sourceCode, tree, heap, stack, pc, result, returned>>

(* Variant: extractFunctions detaches the function nodes it reports from   *)
(* their parents.                                                          *)
ExtractFunctionsDetaching ==
  /\ pc = "done"
  /\ out' = [op |-> "extractFunctions", value |-> extractFunctions(heap, result.ast)]
  /\ heap' = [n \in 1..Len(heap) |->
                IF heap[n].type = "function_definition"
                THEN [heap[n] EXCEPT !.parent = Undefined]
                ELSE heap[n]]
  /\ UNCHANGED <<sourceCode, tree, stack, pc, result, returned>>

ExtractFunctions ==
  /\ pc = "done"
  /\ out' = [op |-> "extractFunctions", value |-> extractFunctions(heap, result.ast)]
  /\ UNCHANGED <<sourceCode, tree, heap, stack, pc, result, returned>>

ExtractClasses ==
  /\ pc = "done"
  /\ out' = [op |-> "extractClasses", value |-> extractClasses(heap, result.ast)]
  /\ UNCHANGED <<sourceCode, tree, heap, stack, pc, result, returned>>

ExtractImports ==
  /\ pc = "done"
  /\ out' = [op |-> "extractImports", value |-> extractImports(heap, result.ast)]
  /\ UNCHANGED <<sourceCode, tree, heap, stack, pc, result, returned>>

----------------------------------------------------------------------------
(* Further calls of parse on the same PythonParser.  The instance keeps    *)
(* the grammar engine only (lines 6-11), and line 17 hands the engine the  *)
(* text alone, without an earlier tree: the raw tree is a function of the  *)
(* text.  The records of earlier results stay allocated.                   *)

MaxCalls == 3

(* Texts a client passes, each given by the tree the engine returns for    *)
(* it: the empty text, `x`, `$`, and `$` followed by `x` on a second line. *)
CallInputs ==
  { Node("module", <<>>),
    Node("module", <<Node("expression_statement", <<Leaf("identifier", "x")>>)>>),
    Node("module", <<Leaf("ERROR", "$")>>),
    Node("module", <<Node("ERROR", <<Leaf("ERROR", "$")>>),
                     Node("expression_statement", <<Leaf("identifier", "x")>>)>>) }

CallTexts == {Tokens(t) : t \in CallInputs}

(* this.parser.parse(sourceCode), line 17.                                 *)
GrammarTree(text) == RawTree(CHOOSE t \in CallInputs : Tokens(t) = text)

ParseAgain ==
  /\ pc = "done"
  /\ Len(returned) < MaxCalls
  /\ \E text \in CallTexts :
       /\ sourceCode' = text
       /\ tree' = GrammarTree(text)
  /\ pc' = "idle"
  /\ result' = NoResult
  /\ out' = NoOutput
  /\ UNCHANGED <<heap, stack, returned>>

----------------------------------------------------------------------------
(* Properties.                                                             *)

Parsed == pc = "done"

RECURSIVE PreOrder(_, _)
PreOrder(arena, n) ==
  <<n>> \o Concat([i \in 1..Len(arena[n].children) |-> PreOrder(arena, arena[n].children[i])])

SeqToSet(s) == {s[i] : i \in 1..Len(s)}

Facts(node) == <<node.type, node.startPosition, node.endPosition, node.text>>

RECURSIVE Depth(_, _)
Depth(arena, n) ==
  1 + (IF arena[n].children = <<>> THEN 0
       ELSE MaxOf({Depth(arena, arena[n].children[i]) : i \in 1..Len(arena[n].children)}))

(* C1: when convertNode has returned the root (and so in the result of     *)
(* parse), the normalized tree has as many nodes as the raw tree, and the  *)
(* pre-order traversals of the two trees agree position by position on     *)
(* kind, start position, end position and text.                            *)
C1_OneToOneInOrder ==
  pc \in {"collect", "done"} =>
    LET norm == PreOrder(heap, result.ast)
        raw == PreOrder(tree, 1)
    IN /\ Len(norm) = Len(raw)
       /\ Len(raw) = Len(tree)
       /\ \A i \in 1..Len(raw) : Facts(heap[norm[i]]) = Facts(tree[raw[i]])
       /\ \A i \in 1..Len(raw) : Len(heap[norm[i]].children) = Len(tree[raw[i]].children)

C1_Witness ==
  /\ Parsed
  /\ Len(tree) >= 4
  /\ Depth(tree, 1) >= 3
  /\ \E n \in 1..Len(tree) : Len(tree[n].children) >= 2
  /\ \E n \in 1..Len(tree) : tree[n].startPosition # tree[n].endPosition

RECURSIVE ReachesRoot(_, _, _, _)
ReachesRoot(h, n, root, seen) ==
  IF n = root THEN TRUE
  ELSE IF h[n].parent = Undefined \/ h[n].parent \in seen \cup {n} THEN FALSE
  ELSE ReachesRoot(h, h[n].parent, root, seen \cup {n})

(* C2: in the tree parse returns, the root has no parent, every other node *)
(* is one of the children of its parent, and the parent links lead from    *)
(* every node to the root without visiting a node twice.                   *)
C2_ParentLinks ==
  Parsed =>
    LET nodes == SeqToSet(PreOrder(heap, result.ast))
    IN /\ heap[result.ast].parent = Undefined
       /\ \A n \in nodes \ {result.ast} :
            /\ heap[n].parent \in nodes
            /\ \E k \in 1..Len(heap[heap[n].parent].children) :
                 heap[heap[n].parent].children[k] = n
       /\ \A n \in nodes : ReachesRoot(heap, n, result.ast, {})

C2_Witness ==
  /\ Parsed
  /\ Depth(heap, result.ast) >= 3
  /\ \E n \in 1..Len(heap) : Len(heap[n].children) >= 2 /\ heap[n].parent # Undefined

DigitValue(d) == (CHOOSE k \in 1..10 : DigitChar[k] = d) - 1

RECURSIVE DecimalValue(_)
DecimalValue(ds) ==
  IF Len(ds) = 1 THEN DigitValue(ds[1])
  ELSE 10 * DecimalValue(SubSeq(ds, 1, Len(ds) - 1)) + DigitValue(ds[Len(ds)])

IsDecimalOf(ds, n) ==
  /\ ds # <<>>
  /\ \A i \in 1..Len(ds) : \E k \in 1..10 : DigitChar[k] = ds[i]
  /\ Len(ds) > 1 => ds[1] # "0"
  /\ DecimalValue(ds) = n

(* The message reads "Syntax error at <row>:<column>" for the position.    *)
IsSyntaxErrorMessage(message, position) ==
  /\ Len(message) >= 4
  /\ message[1] = "Syntax error at "
  /\ \E k \in 3..(Len(message) - 1) :
       /\ message[k] = ":"
       /\ IsDecimalOf(SubSeq(message, 2, k - 1), position.row)
       /\ IsDecimalOf(SubSeq(message, k + 1, Len(message)), position.column)

ErrorNodes == {n \in 1..Len(tree) : tree[n].type = "ERROR"}

(* C3: the entries of ParseResult.errors can be matched one to one with    *)
(* distinct raw nodes of kind ERROR: an entry's position is the start      *)
(* position of its node, its message is "Syntax error at <row>:<column>"   *)
(* of that position and its severity is "error".                           *)
C3_EntriesAreErrorNodes ==
  Parsed =>
    \E f \in [1..Len(result.errors) -> ErrorNodes] :
      /\ \A i, j \in 1..Len(result.errors) : i # j => f[i] # f[j]
      /\ \A i \in 1..Len(result.errors) :
           /\ result.errors[i].position = tree[f[i]].startPosition
           /\ IsSyntaxErrorMessage(result.errors[i].message, tree[f[i]].startPosition)
           /\ result.errors[i].severity = "error"

C3_Witness ==
  /\ Parsed
  /\ Len(result.errors) >= 2
  /\ \E n \in 1..Len(tree) : tree[n].type # "ERROR" /\ hasError(tree, n) /\ n # 1
  /\ \E i \in 1..Len(result.errors) :
       result.errors[i].position.row # result.errors[i].position.column

(* C4: whenever the root of the raw tree is flagged as containing a syntax *)
(* problem, parse returns a result with a root and at least one entry of   *)
(* severity "error".                                                       *)
C4_FlaggedRootYieldsError ==
  (Parsed /\ hasError(tree, 1)) =>
    /\ result.ast # Undefined
    /\ \E i \in 1..Len(result.errors) : result.errors[i].severity = "error"

(* The raw tree read as a file: which definitions are top-level, which are *)
(* methods of a class.  A decorated_definition wrapper does not change     *)
(* where its definition stands.                                            *)

RawNodes == 1..Len(tree)

RawParent(n) == CHOOSE m \in RawNodes : \E i \in 1..Len(tree[m].children) : tree[m].children[i] = n

RECURSIVE Owner(_)
Owner(n) ==
  LET m == RawParent(n)
  IN IF tree[m].type = "decorated_definition" THEN Owner(m) ELSE m

RawOfType(type) == {n \in RawNodes : tree[n].type = type}

RawSubtree(n) == SeqToSet(PreOrder(tree, n))

RawBlockOf(c) ==
  LET blocks == {b \in RawNodes : tree[b].type = "block" /\ RawParent(b) = c}
  IN IF blocks = {} THEN Undefined ELSE MinOf(blocks)

TopLevelFunctions == {n \in RawOfType("function_definition") : Owner(n) = 1}

TopLevelClasses == {c \in RawOfType("class_definition") : Owner(c) = 1}

MethodsOf(c) == {n \in RawOfType("function_definition") : Owner(n) = RawBlockOf(c)}

FunctionsUnder(c) ==
  IF RawBlockOf(c) = Undefined THEN {}
  ELSE RawOfType("function_definition") \cap RawSubtree(RawBlockOf(c))

(* The raw nodes are numbered in pre-order, so the entity of class c is    *)
(* the one at c's rank among the class nodes.                              *)
ClassRank(c) == Cardinality({d \in RawOfType("class_definition") : d <= c})

TheClass == CHOOSE c \in TopLevelClasses : TRUE

NoNestedFunctions ==
  \A n \in RawOfType("function_definition") : n \in TopLevelFunctions \cup MethodsOf(TheClass)

(* C5 as stated: for a file with N top-level functions and one class with  *)
(* M methods, extractFunctions on the root returns N + M entries and the   *)
(* methods of the class's entity number M, whatever is nested in them.     *)
C5_CountsAreNPlusM ==
  (Parsed /\ Cardinality(TopLevelClasses) = 1) =>
    /\ out.op = "extractFunctions" =>
         Len(out.value) = Cardinality(TopLevelFunctions) + Cardinality(MethodsOf(TheClass))
    /\ out.op = "extractClasses" =>
         Len(out.value[ClassRank(TheClass)].methods) = Cardinality(MethodsOf(TheClass))

(* C5, amended: extractFunctions on the root returns one entry per         *)
(* function_definition node of the tree and the methods of a class one     *)
(* entry per function_definition node under its block; for a file with N   *)
(* top-level functions and one class with M methods these are N + M and M  *)
(* when no function definition is nested in another function definition    *)
(* or in a class nested in that class.                                     *)
C5_CountsWithoutNesting ==
  Parsed =>
    /\ out.op = "extractFunctions" =>
         /\ Len(out.value) = Cardinality(RawOfType("function_definition"))
         /\ (Cardinality(TopLevelClasses) = 1 /\ NoNestedFunctions) =>
              Len(out.value) = Cardinality(TopLevelFunctions) + Cardinality(MethodsOf(TheClass))
    /\ out.op = "extractClasses" =>
         /\ Len(out.value) = Cardinality(RawOfType("class_definition"))
         /\ \A c \in RawOfType("class_definition") :
              Len(out.value[ClassRank(c)].methods) = Cardinality(FunctionsUnder(c))
         /\ (Cardinality(TopLevelClasses) = 1 /\ NoNestedFunctions) =>
              Len(out.value[ClassRank(TheClass)].methods) = Cardinality(MethodsOf(TheClass))

C5_Witness ==
  /\ Parsed
  /\ out.op = "extractClasses"
  /\ Cardinality(TopLevelClasses) = 1
  /\ NoNestedFunctions
  /\ Cardinality(TopLevelFunctions) >= 1
  /\ Cardinality(MethodsOf(TheClass)) >= 1
  /\ Len(out.value[ClassRank(TheClass)].methods) = Cardinality(MethodsOf(TheClass))

(* The normalized node that stands for raw node n.                         *)
NormalizedOf(n) == PreOrder(heap, result.ast)[n]

(* C6: the methods of every class entity equal, entry by entry and field   *)
(* by field, extractFunctions applied to the class's block, and are empty  *)
(* when the class has no block.                                            *)
C6_MethodsAreFunctionsOfBlock ==
  (Parsed /\ out.op = "extractClasses") =>
    \A c \in RawOfType("class_definition") :
      LET bodyNode == FindChild(heap, NormalizedOf(c), {"block"})
          methods == out.value[ClassRank(c)].methods
      IN IF bodyNode = Undefined THEN methods = <<>>
         ELSE methods = extractFunctions(heap, bodyNode)

(* The decorated_definition ancestors of raw node n that are reached from  *)
(* its parent through decorated_definition nodes only.                     *)
RECURSIVE RawAncestors(_)
RawAncestors(n) == IF n = 1 THEN {} ELSE {RawParent(n)} \cup RawAncestors(RawParent(n))

Wrappers(n) ==
  {w \in RawAncestors(n) :
     \A m \in RawAncestors(n) : m >= w => tree[m].type = "decorated_definition"}

DecoratorTextsOf(w) ==
  LET kids == tree[w].children
  IN Concat([i \in 1..Len(kids) |->
               IF tree[kids[i]].type = "decorator" THEN <<tree[kids[i]].text>> ELSE <<>>])

(* Innermost wrapper first: the innermost wrapper is the latest in         *)
(* pre-order.                                                              *)
RECURSIVE InnermostFirst(_)
InnermostFirst(ws) ==
  IF ws = {} THEN <<>>
  ELSE DecoratorTextsOf(MaxOf(ws)) \o InnermostFirst(ws \ {MaxOf(ws)})

RawRank(n) == Cardinality({d \in RawOfType(tree[n].type) : d <= n})

RawChildren(n) == tree[n].children

RawChildrenOfType(n, types) ==
  Concat([i \in 1..Len(RawChildren(n)) |->
            IF tree[RawChildren(n)[i]].type \in types THEN <<RawChildren(n)[i]>> ELSE <<>>])

TheFunction == MinOf(RawOfType("function_definition"))

TheParameters == MinOf(RawOfType("parameters"))

RecognizedParams ==
  RawChildrenOfType(TheParameters, {"identifier", "default_parameter", "typed_parameter"})

ExtractedParams == out.value[RawRank(TheFunction)].parameters

(* C8 as stated: a default_parameter yields the text of its first          *)
(* identifier child as name, no type, and the text of its last child as    *)
(* defaultValue; a typed_parameter the text of its first identifier child  *)
(* as name, the text of its child of kind "type" as type, and no           *)
(* defaultValue; a plain identifier its text as name and nothing else.     *)
C8_ShapesYieldTexts ==
  (Parsed /\ out.op = "extractFunctions" /\ RawOfType("parameters") # {}
     /\ Len(ExtractedParams) = Len(RecognizedParams)) =>
    \A i \in 1..Len(RecognizedParams) :
      LET p == RecognizedParams[i]
          e == ExtractedParams[i]
          ids == RawChildrenOfType(p, {"identifier"})
          types == RawChildrenOfType(p, {"type"})
      IN /\ tree[p].type = "identifier" =>
              e = [name |-> tree[p].text, type |-> None, defaultValue |-> None]
         /\ (tree[p].type = "default_parameter" /\ ids # <<>>) =>
              e = [name |-> tree[ids[1]].text,
                   type |-> None,
                   defaultValue |-> Some(tree[RawChildren(p)[Len(RawChildren(p))]].text)]
         /\ (tree[p].type = "typed_parameter" /\ ids # <<>> /\ types # <<>>) =>
              e = [name |-> tree[ids[1]].text,
                   type |-> Some(tree[types[1]].text),
                   defaultValue |-> None]

(* A text that is present and not empty, else nothing.                     *)
PresentText(nodes) ==
  IF nodes = <<>> \/ tree[nodes[1]].text = <<>> THEN None ELSE Some(tree[nodes[1]].text)

(* C8, amended: as stated, except that a sub-child whose text is empty     *)
(* (a missing token) counts like a sub-child that is not there: the name   *)
(* is then "unknown" and the type or defaultValue absent.                  *)
C8_ShapesYieldTextsOrDefaults ==
  (Parsed /\ out.op = "extractFunctions" /\ RawOfType("parameters") # {}
     /\ Len(ExtractedParams) = Len(RecognizedParams)) =>
    \A i \in 1..Len(RecognizedParams) :
      LET p == RecognizedParams[i]
          e == ExtractedParams[i]
          name == PresentText(RawChildrenOfType(p, {"identifier"}))
          last == IF RawChildren(p) = <<>> THEN <<>>
                  ELSE <<RawChildren(p)[Len(RawChildren(p))]>>
      IN /\ tree[p].type = "identifier" =>
              e = [name |-> tree[p].text, type |-> None, defaultValue |-> None]
         /\ tree[p].type = "default_parameter" =>
              e = [name |-> IF name = None THEN <<"unknown">> ELSE name[1],
                   type |-> None,
                   defaultValue |-> PresentText(last)]
         /\ tree[p].type = "typed_parameter" =>
              e = [name |-> IF name = None THEN <<"unknown">> ELSE name[1],
                   type |-> PresentText(RawChildrenOfType(p, {"type"})),
                   defaultValue |-> None]

(* `def f(x=5, x: int)`: defaultValue "5", then type "int".                *)
C8_Witness ==
  /\ Parsed
  /\ out.op = "extractFunctions"
  /\ sourceCode = <<"def", "f", "(", "x", "=", "5", ",", "x", ":", "int", ")", ":", "pass">>
  /\ out.value[1].parameters =
       <<[name |-> <<"x">>, type |-> None, defaultValue |-> Some(<<"5">>)],
         [name |-> <<"x">>, type |-> Some(<<"int">>), defaultValue |-> None]>>

(* The name extractParameters reports for a recognized child.              *)
ReportedName(p) ==
  IF tree[p].type = "identifier" THEN tree[p].text
  ELSE LET name == PresentText(RawChildrenOfType(p, {"identifier"}))
       IN IF name = None THEN <<"unknown">> ELSE name[1]

(* C9: extractParameters returns one entry per child of the parameter list *)
(* of kind identifier, default_parameter or typed_parameter, in child      *)
(* order, and none for any other child.                                    *)
C9_OneEntryPerRecognizedChild ==
  (Parsed /\ out.op = "extractFunctions" /\ RawOfType("parameters") # {}) =>
    /\ Len(ExtractedParams) = Len(RecognizedParams)
    /\ \A i \in 1..Len(RecognizedParams) :
         /\ ExtractedParams[i].name = ReportedName(RecognizedParams[i])
         /\ tree[RecognizedParams[i]].type = "typed_parameter" =>
              ExtractedParams[i].defaultValue = None
         /\ tree[RecognizedParams[i]].type # "typed_parameter" =>
              ExtractedParams[i].type = None

(* `def f(z: int = 5, a)`: the typed parameter with a default is dropped,  *)
(* as are the parentheses and the comma.                                   *)
C9_Witness ==
  /\ Parsed
  /\ out.op = "extractFunctions"
  /\ sourceCode = <<"def", "f", "(", "z", ":", "int", "=", "5", ",", "a", ")", ":", "pass">>
  /\ out.value[1].parameters = <<[name |-> <<"a">>, type |-> None, defaultValue |-> None]>>

(* The names a raw import list stands for: a bare identifier by its text,  *)
(* an aliased import by the texts of its first and third child.            *)
RawImportName(n) ==
  IF tree[n].type = "identifier" THEN <<[name |-> tree[n].text, alias |-> None]>>
  ELSE IF tree[n].type = "aliased_import"
  THEN <<[name |-> IF RawChildren(n) = <<>> THEN <<>> ELSE tree[RawChildren(n)[1]].text,
          alias |-> IF Len(RawChildren(n)) < 3 THEN None
                    ELSE PresentText(<<RawChildren(n)[3]>>)]>>
  ELSE <<>>

RawImportNames(lists) ==
  IF lists = <<>> THEN <<>>
  ELSE Concat([i \in 1..Len(RawChildren(lists[1])) |-> RawImportName(RawChildren(lists[1])[i])])

(* The entities of the direct imports come first in the result.            *)
FromImportRank(n) ==
  Cardinality(RawOfType("import_statement"))
    + Cardinality({d \in RawOfType("import_from_statement") : d <= n})

DirectImportRank(n) == Cardinality({d \in RawOfType("import_statement") : d <= n})

RecognizedNames(lists) ==
  IF lists = <<>> THEN <<>>
  ELSE RawChildrenOfType(lists[1], {"identifier", "aliased_import"})

ImportRank(n) ==
  IF tree[n].type = "import_statement" THEN DirectImportRank(n) ELSE FromImportRank(n)

RawImports == RawOfType("import_statement") \cup RawOfType("import_from_statement")

(* C12 as stated: the names of an import entity are, in child order, one   *)
(* entry per identifier child of the import list, with its text as name    *)
(* and no alias, and one per aliased_import child, with the text of its    *)
(* first child as name and the text of its third child as alias; children  *)
(* of other kinds give no entry.                                           *)
C12_EntryPerRecognizedChild ==
  (Parsed /\ out.op = "extractImports") =>
    \A n \in RawImports :
      LET names == out.value[ImportRank(n)].names
          kids == RecognizedNames(RawChildrenOfType(n, {"import_list"}))
      IN /\ Len(names) = Len(kids)
         /\ \A i \in 1..Len(kids) :
              IF tree[kids[i]].type = "identifier"
              THEN names[i] = [name |-> tree[kids[i]].text, alias |-> None]
              ELSE /\ names[i].name = tree[RawChildren(kids[i])[1]].text
                   /\ names[i].alias = Some(tree[RawChildren(kids[i])[3]].text)

(* C12 amended: as above, but the alias of an aliased import whose third   *)
(* child has empty text (a missing token) is absent.                       *)
C12_EntryPerRecognizedChildOrAbsent ==
  (Parsed /\ out.op = "extractImports") =>
    \A n \in RawImports :
      LET names == out.value[ImportRank(n)].names
          kids == RecognizedNames(RawChildrenOfType(n, {"import_list"}))
      IN /\ Len(names) = Len(kids)
         /\ \A i \in 1..Len(kids) :
              IF tree[kids[i]].type = "identifier"
              THEN names[i] = [name |-> tree[kids[i]].text, alias |-> None]
              ELSE /\ names[i].name = tree[RawChildren(kids[i])[1]].text
                   /\ names[i].alias =
                        (IF tree[RawChildren(kids[i])[3]].text = <<>> THEN None
                         ELSE Some(tree[RawChildren(kids[i])[3]].text))

(* `import d.e, a as b`: the dotted name gives no entry.                   *)
C12_Witness ==
  /\ Parsed
  /\ out.op = "extractImports"
  /\ sourceCode = <<"import", "d", ".", "e", ",", "a", "as", "b">>
  /\ out.value[1].names = <<[name |-> <<"a">>, alias |-> Some(<<"b">>)]>>

(* C18: extractImports returns one entity per direct import and one per    *)
(* from-import of the tree, the direct imports first in pre-order, then    *)
(* the from-imports in pre-order; a from-import that precedes a direct     *)
(* import in the source therefore comes after it in the result.            *)
C18_DirectImportsThenFromImports ==
  (Parsed /\ out.op = "extractImports") =>
    /\ Len(out.value) = Cardinality(RawOfType("import_statement"))
                          + Cardinality(RawOfType("import_from_statement"))
    /\ \A n \in RawOfType("import_statement") :
         /\ DirectImportRank(n) <= Cardinality(RawOfType("import_statement"))
         /\ out.value[DirectImportRank(n)].type = "import"
         /\ out.value[DirectImportRank(n)].startLine = tree[n].startPosition.row
    /\ \A n \in RawOfType("import_from_statement") :
         /\ FromImportRank(n) > Cardinality(RawOfType("import_statement"))
         /\ out.value[FromImportRank(n)].type = "from"
         /\ out.value[FromImportRank(n)].startLine = tree[n].startPosition.row
    /\ \A f \in RawOfType("import_from_statement"), d \in RawOfType("import_statement") :
         f < d => /\ ImportRank(d) < ImportRank(f)
                  /\ out.value[ImportRank(d)].startLine > out.value[ImportRank(f)].startLine

(* `from lead import l` on the first line, `import one, two` on the next.  *)
C18_Witness ==
  /\ Parsed
  /\ out.op = "extractImports"
  /\ sourceCode = <<"from", "lead", "import", "l", "import", "one", ",", "two">>
  /\ Len(out.value) = 2
  /\ out.value[1].type = "import" /\ out.value[1].startLine = 1
  /\ out.value[2].type = "from" /\ out.value[2].startLine = 0

(* The flag of the grammar engine is set on every ERROR node and on every  *)
(* node above one.                                                         *)
FlagsCoverErrors ==
  \A e \in ErrorNodes : \A a \in RawAncestors(e) \cup {e} : hasError(tree, a)

ErrorRank(n) == Cardinality({e \in ErrorNodes : e <= n})

(* C17: when every ERROR node and every node above one is flagged,         *)
(* ParseResult.errors holds exactly one entry per ERROR node of the raw    *)
(* tree, in the pre-order of those nodes, nested ERROR nodes included; and *)
(* when the root is not flagged the list is empty.                         *)
C17_OneEntryPerErrorNodeInPreOrder ==
  Parsed =>
    /\ FlagsCoverErrors =>
         /\ Len(result.errors) = Cardinality(ErrorNodes)
         /\ \A e \in ErrorNodes :
              /\ result.errors[ErrorRank(e)].position = tree[e].startPosition
              /\ IsSyntaxErrorMessage(result.errors[ErrorRank(e)].message, tree[e].startPosition)
    /\ ~hasError(tree, 1) => result.errors = <<>>

(* An ERROR node inside an ERROR node, and a further ERROR node after      *)
(* them: three entries, the later node's entry last.                       *)
C17_Witness ==
  /\ Parsed
  /\ FlagsCoverErrors
  /\ Len(result.errors) = 3
  /\ \E e \in ErrorNodes : \E a \in RawAncestors(e) : tree[a].type = "ERROR"
  /\ result.errors[1].position = result.errors[2].position
  /\ result.errors[3].position # result.errors[2].position

(* The records a step gives a parent they did not have before the step.   *)
ParentAssigned(n) == n <= Len(heap) /\ heap'[n].parent # heap[n].parent

(* C16: a step of the normalization that assigns the parent of a record    *)
(* finds that parent absent before; every descendant of the record exists  *)
(* already and has its own parent; the parent is the record the running    *)
(* call constructed, which exists already and holds one child per child    *)
(* of its raw node, the record among them; a record is constructed without *)
(* a parent, and no step changes a parent that is set or a children        *)
(* sequence.                                                               *)
C16_ParentAssignedAfterSubtreeAndRecord ==
  [][\A n \in 1..Len(heap') :
       /\ n > Len(heap) => heap'[n].parent = Undefined
       /\ n <= Len(heap) => heap'[n].children = heap[n].children
       /\ ParentAssigned(n) =>
            /\ heap[n].parent = Undefined
            /\ \A d \in SeqToSet(PreOrder(heap, n)) \ {n} :
                 d <= Len(heap) /\ heap[d].parent # Undefined
            /\ LET p == heap'[n].parent
               IN /\ p \in 1..Len(heap)
                  /\ stack # <<>> /\ p = Top.parsedNode
                  /\ Len(heap[p].children) = childCount(tree, Top.node)
                  /\ \E k \in 1..Len(heap[p].children) : heap[p].children[k] = n
                  /\ heap'[p].children = heap[p].children]_vars

(* A record with children of its own has got its parent while the call on  *)
(* the root is still collecting.                                           *)
C16_Witness ==
  /\ pc = "convert"
  /\ stack # <<>>
  /\ \E n \in 1..Len(heap) :
       /\ heap[n].children # <<>>
       /\ heap[n].parent # Undefined
       /\ heap[heap[n].parent].parent = Undefined
       /\ \A k \in 1..Len(heap[n].children) : heap[heap[n].children[k]].parent = n

(* The normalized tree under a record, without the identities of its       *)
(* records.                                                                *)
RECURSIVE Shape(_, _)
Shape(arena, n) ==
  [type |-> arena[n].type,
   startPosition |-> arena[n].startPosition,
   endPosition |-> arena[n].endPosition,
   text |-> arena[n].text,
   children |-> [i \in 1..Len(arena[n].children) |-> Shape(arena, arena[n].children[i])]]

(* C14: among the results that the calls of parse on one instance have     *)
(* returned, two for the same text have equal tree shapes and equal error  *)
(* lists, whatever was parsed before or between them; every result has the *)
(* text that was passed as source and "python" as language.                *)
C14_ResultDependsOnTextOnly ==
  /\ \A i \in 1..Len(returned) :
       /\ returned[i].result.source = returned[i].sourceCode
       /\ returned[i].result.language = "python"
  /\ \A i, j \in 1..Len(returned) :
       returned[i].sourceCode = returned[j].sourceCode =>
         /\ Shape(heap, returned[i].result.ast) = Shape(heap, returned[j].result.ast)
         /\ returned[i].result.errors = returned[j].result.errors

(* `$` and `x` on two lines parsed, then another text, then the first text *)
(* again: the two results are distinct records of equal shape.             *)
C14_Witness ==
  /\ Len(returned) = 3
  /\ returned[1].sourceCode = <<"$", "x">>
  /\ returned[2].sourceCode # returned[1].sourceCode
  /\ returned[3].sourceCode = returned[1].sourceCode
  /\ returned[1].result.ast # returned[3].result.ast
  /\ Len(returned[3].result.errors) = 2

(* C15: a call of findNodesByType, extractFunctions, extractClasses or     *)
(* extractImports on the tree that parse returned leaves every record of   *)
(* the tree as it was: kind, span, text, children and parent; no record is *)
(* added and the ParseResult keeps its root.                               *)
C15_ExtractionLeavesTreeUnchanged ==
  [][(pc = "done" /\ pc' = "done") =>
       /\ Len(heap') = Len(heap)
       /\ \A n \in 1..Len(heap) :
            /\ heap'[n].type = heap[n].type
            /\ heap'[n].startPosition = heap[n].startPosition
            /\ heap'[n].endPosition = heap[n].endPosition
            /\ heap'[n].text = heap[n].text
            /\ heap'[n].children = heap[n].children
            /\ heap'[n].parent = heap[n].parent
       /\ result' = result]_vars

(* extractFunctions has followed the parent references of a decorated      *)
(* function and they are still in place.                                   *)
C15_Witness ==
  /\ Parsed
  /\ out.op = "extractFunctions"
  /\ \E i \in 1..Len(out.value) : Len(out.value[i].decorators) >= 2
  /\ \E n \in 1..Len(heap) :
       /\ heap[n].type = "function_definition"
       /\ heap[n].parent # Undefined
       /\ heap[heap[n].parent].type = "decorated_definition"
       /\ heap[heap[n].parent].parent # Undefined

LacksChild(n, types) == RawChildrenOfType(n, types) = <<>>

RecognizedParamsOf(f) ==
  IF LacksChild(f, {"parameters"}) THEN <<>>
  ELSE RawChildrenOfType(RawChildrenOfType(f, {"parameters"})[1],
                         {"identifier", "default_parameter", "typed_parameter"})

(* The fields that the routines read from a child found by its kind: every *)
(* routine returns one entity per node, and a field whose child is not     *)
(* there has its default.                                                  *)
DefaultsOfChildrenFoundByKind ==
  /\ out.op = "extractFunctions" =>
       /\ Len(out.value) = Cardinality(RawOfType("function_definition"))
       /\ \A f \in RawOfType("function_definition") :
            LET e == out.value[RawRank(f)]
                ps == RecognizedParamsOf(f)
            IN /\ LacksChild(f, {"identifier"}) => e.name = <<"unknown">>
               /\ LacksChild(f, {"parameters"}) => e.parameters = <<>>
               /\ LacksChild(f, {"block"}) => e.body = <<>>
               /\ Len(e.parameters) = Len(ps)
               /\ \A i \in 1..Len(ps) :
                    /\ (tree[ps[i]].type # "identifier" /\ LacksChild(ps[i], {"identifier"}))
                         => e.parameters[i].name = <<"unknown">>
                    /\ (tree[ps[i]].type = "typed_parameter" /\ LacksChild(ps[i], {"type"}))
                         => e.parameters[i].type = None
  /\ out.op = "extractClasses" =>
       /\ Len(out.value) = Cardinality(RawOfType("class_definition"))
       /\ \A c \in RawOfType("class_definition") :
            LET e == out.value[RawRank(c)]
            IN /\ LacksChild(c, {"identifier"}) => e.name = <<"unknown">>
               /\ LacksChild(c, {"argument_list"}) => e.superclasses = <<>>
               /\ LacksChild(c, {"block"}) => e.methods = <<>>
               /\ ~LacksChild(c, {"block"}) =>
                    LET ms == RawOfType("function_definition")
                                \cap RawSubtree(RawChildrenOfType(c, {"block"})[1])
                    IN /\ Len(e.methods) = Cardinality(ms)
                       /\ \A f \in ms :
                            LET method == e.methods[Cardinality({d \in ms : d <= f})]
                            IN /\ LacksChild(f, {"identifier"}) => method.name = <<"unknown">>
                               /\ LacksChild(f, {"parameters"}) => method.parameters = <<>>
  /\ out.op = "extractImports" =>
       /\ Len(out.value) = Cardinality(RawImports)
       /\ \A n \in RawImports :
            LET e == out.value[ImportRank(n)]
            IN /\ LacksChild(n, {"import_list"}) => e.names = <<>>
               /\ (tree[n].type = "import_from_statement"
                     /\ LacksChild(n, {"dotted_name", "relative_import"})) => e.module = <<>>
               /\ (tree[n].type = "import_statement" /\ LacksChild(n, {"import_list"}))
                    => e.module = <<>> /\ e.alias = None

(* The fields read from a child found by its place, as the claim has      *)
(* them: a default_parameter without a value has no defaultValue, an       *)
(* aliased_import that does not start with a name has a default as name,   *)
(* and one without a third child has no alias.                             *)
DefaultsOfChildrenFoundByPlaceAsStated ==
  /\ out.op = "extractFunctions" =>
       \A f \in RawOfType("function_definition") :
         LET ps == RecognizedParamsOf(f)
         IN \A i \in 1..Len(ps) :
              (tree[ps[i]].type = "default_parameter" /\ LacksChild(ps[i], {"integer"}))
                => out.value[RawRank(f)].parameters[i].defaultValue = None
  /\ out.op = "extractImports" =>
       \A n \in RawImports :
         LET kids == RecognizedNames(RawChildrenOfType(n, {"import_list"}))
             names == out.value[ImportRank(n)].names
         IN \A i \in 1..Len(kids) :
              tree[kids[i]].type = "aliased_import" =>
                /\ (RawChildren(kids[i]) = <<>>
                      \/ tree[RawChildren(kids[i])[1]].type # "identifier")
                     => names[i].name \in {<<"unknown">>, <<>>}
                /\ Len(RawChildren(kids[i])) < 3 => names[i].alias = None

(* The same fields as the code fills them: the last child of a             *)
(* default_parameter and the first and third child of an aliased_import,   *)
(* whatever stands there, and the default where nothing stands.            *)
DefaultsOfChildrenFoundByPlace ==
  /\ out.op = "extractFunctions" =>
       \A f \in RawOfType("function_definition") :
         LET ps == RecognizedParamsOf(f)
         IN \A i \in 1..Len(ps) :
              tree[ps[i]].type = "default_parameter" =>
                out.value[RawRank(f)].parameters[i].defaultValue =
                  (IF RawChildren(ps[i]) = <<>> THEN None
                   ELSE PresentText(<<RawChildren(ps[i])[Len(RawChildren(ps[i]))]>>))
  /\ out.op = "extractImports" =>
       \A n \in RawImports :
         LET kids == RecognizedNames(RawChildrenOfType(n, {"import_list"}))
             names == out.value[ImportRank(n)].names
         IN \A i \in 1..Len(kids) :
              tree[kids[i]].type = "aliased_import" =>
                /\ names[i].name = (IF RawChildren(kids[i]) = <<>> THEN <<>>
                                    ELSE tree[RawChildren(kids[i])[1]].text)
                /\ Len(RawChildren(kids[i])) < 3 => names[i].alias = None

Next ==
  \/ Parse
  \/ ConvertChild
  \/ ConvertConstruct
  \/ ConvertReturn
  \/ ParseReturn
  \/ FindNodesByType
  \/ ExtractFunctions
  \/ ExtractClasses
  \/ ExtractImports

Spec == Init /\ [][Next]_vars

InitDefs == InitWith(DefInputs)

SpecDefs == InitDefs /\ [][Next]_vars

InitDecorators == InitWith(DecoratorInputs)

SpecDecorators == InitDecorators /\ [][Next]_vars

InitParams == InitWith(ParamInputs)

SpecParams == InitParams /\ [][Next]_vars

InitImports == InitWith(ImportInputs)

SpecImports == InitImports /\ [][Next]_vars

InitSparse == InitWith(SparseInputs)

SpecSparse == InitSparse /\ [][Next]_vars

InitCalls == InitWith(CallInputs)

NextCalls == Next \/ ParseAgain

SpecCalls == InitCalls /\ [][NextCalls]_vars

====
